---- MODULE Spec2Model ----
(***************************************************************************)
(* A model of app.py, the Google Drive audio browser: the three cached     *)
(* Drive operations (list_subfolders, list_wav_files,                      *)
(* download_file_bytes), the manual refresh, and the script's browse flow  *)
(* (folder selection, search filter, pagination).                          *)
(*                                                                         *)
(* Strings whose characters the code inspects (file names, the search      *)
(* text) are sequences of one-character strings.                           *)
(***************************************************************************)
EXTENDS Integers, Sequences, FiniteSets, TLC

VARIABLES
    secrets,      \* st.secrets: which of the two settings are present
    drive,        \* which content the Drive account (the FileStore) has now
    clock,        \* seconds since the process started
    folderCache,  \* list_subfolders' cache: root folder id -> entry
    fileCache,    \* list_wav_files' cache: folder id -> entry
    byteCache,    \* download_file_bytes' cache: file id -> entry
    ret,          \* the outcome of the cached call that has just returned
    cleared,      \* history: the <<op, key>> whose entry a refresh dropped
                  \* and that op has not been called on since
    widgets,      \* the session's widget state, kept from one run to the next
    view,         \* what the last run of the script put on the page
    calc          \* the last evaluation of one of the script's computations

vars == <<secrets, drive, clock, folderCache, fileCache, byteCache, ret,
          cleared, widgets, view, calc>>

catalogVars == <<folderCache, fileCache, byteCache, ret, cleared>>
sessionVars == <<widgets, view>>

----------------------------------------------------------------------------
(* Characters and strings *)

UpperChars == <<"A","B","C","D","E","F","G","H","I","J","K","L","M",
                "N","O","P","Q","R","S","T","U","V","W","X","Y","Z">>

LowerChars == <<"a","b","c","d","e","f","g","h","i","j","k","l","m",
                "n","o","p","q","r","s","t","u","v","w","x","y","z">>

\* str.lower() on one character
Lower(c) ==
    IF \E i \in 1..26 : UpperChars[i] = c
    THEN LowerChars[CHOOSE i \in 1..26 : UpperChars[i] = c]
    ELSE c

\* str.lower()
LowerStr(s) == [i \in 1..Len(s) |-> Lower(s[i])]

\* The extensions of AUDIO_EXT_RE, \.(wav|wave)$
AudioExts == {<<"w","a","v">>, <<"w","a","v","e">>}

\* Python's $ (no re.MULTILINE): position q of s is the end of the string,
\* or sits just before a newline that is the string's last character.
DollarAt(s, q) ==
    \/ q = Len(s) + 1
    \/ q = Len(s) /\ s[q] = "\n"

\* AUDIO_EXT_RE.search(s) is not None: a "." at some position p, then
\* wav or wave in any letter case (re.IGNORECASE), then $.
AUDIO_EXT_RE(s) ==
    \E p \in 1..Len(s) :
        /\ s[p] = "."
        /\ \E e \in AudioExts :
              /\ p + Len(e) <= Len(s)
              /\ \A i \in 1..Len(e) : Lower(s[p + i]) = e[i]
              /\ DollarAt(s, p + Len(e) + 1)

----------------------------------------------------------------------------
(* The Drive account: what files().list and get_media are answered from *)

\* One Drive item as files().list returns it. hasName = FALSE is an item
\* whose "name" key is absent from the response.
Item(id, name, isFolder, trashed) ==
    [id |-> id, name |-> name, hasName |-> TRUE,
     isFolder |-> isFolder, trashed |-> trashed]

Nameless(id) ==
    [id |-> id, name |-> <<>>, hasName |-> FALSE,
     isFolder |-> FALSE, trashed |-> FALSE]

RootIds   == {"root"}
FolderIds == {"fA", "fB"}
FileIds   == {"x1"}

DriveA ==
    [children |->
        [p \in RootIds \cup FolderIds |->
            CASE p = "root" ->
                   << Item("fA", <<"A">>, TRUE, FALSE),
                      Item("fB", <<"B">>, TRUE, FALSE),
                      Item("fT", <<"T">>, TRUE, TRUE),
                      Item("r1", <<"r",".","w","a","v">>, FALSE, FALSE) >>
              [] p = "fA" ->
                   << Item("x1", <<"a",".","w","a","v">>, FALSE, FALSE),
                      Item("x2", <<"b",".","m","p","3">>, FALSE, FALSE),
                      Item("x3", <<"c",".","W","a","V","E">>, FALSE, FALSE),
                      Item("x4", <<"d",".","w","a","v">>, FALSE, TRUE),
                      Item("x7", <<"e",".","W","A","V">>, FALSE, FALSE),
                      Item("x6", <<"w","a","v">>, FALSE, FALSE),
                      Nameless("x5") >>
              [] OTHER ->
                   << Item("y2", <<>>, FALSE, FALSE),
                      Item("y3", <<".","w","a","v","e">>, FALSE, FALSE),
                      Item("y1", <<"f",".","w","a","v","x">>, FALSE, FALSE) >>],
     media |->
        [f \in FileIds |-> << <<"A","B">>, <<"C","D">>, <<"E","F">> >>]]

DriveB ==
    [children |->
        [p \in RootIds \cup FolderIds |->
            CASE p = "root" ->
                   << Item("fB", <<"B">>, TRUE, FALSE) >>
              [] p = "fA" ->
                   << Item("x1", <<"a",".","w","a","v">>, FALSE, FALSE),
                      Item("x8", <<"g",".","w","a","v","\n">>, FALSE, FALSE),
                      Item("x9", <<"h",".","w","a","v",".","t","x","t">>,
                           FALSE, FALSE) >>
              [] OTHER -> << >>],
     media |->
        [f \in FileIds |-> << <<"G">> >>]]

Drives == {"A", "B"}

\* The fields of an item that fields="files(id,name,...)" asks for and the
\* script reads
Listed(it) == [id |-> it.id, name |-> it.name, hasName |-> it.hasName]

\* files().list(q = "'<parent>' in parents and trashed = false" [and
\* mimeType = folder], orderBy = "name").execute().get("files", []),
\* on an account with content d
DriveList(d, parent, folderOnly) ==
    LET found == SelectSeq(d.children[parent],
                    LAMBDA it : ~it.trashed /\ (folderOnly => it.isFolder))
    IN  [i \in 1..Len(found) |-> Listed(found[i])]

\* A file as list_wav_files returns it
File(id, name) == Listed(Item(id, name, FALSE, FALSE))

\* The accounts of the browse flow: a folder large enough for a second page
MaxFiles == 12

AudioName(i) ==
    IF i = 1 THEN <<"a",".","w","a","v">>
    ELSE <<"T","k",".","w","a","v">>

\* n audio files with ids base + 1 .. base + n
AudioFiles(base, n) ==
    [i \in 1..n |-> Item(base + i, AudioName(i), FALSE, FALSE)]

BrowseFileIds == {100 + i : i \in 1..MaxFiles} \cup {200 + i : i \in 1..MaxFiles}

BrowseMedia == [f \in BrowseFileIds |-> << <<f>> >>]

\* Folder A with MaxFiles files, folder B with a few
DriveP ==
    [children |->
        [p \in RootIds \cup FolderIds |->
            CASE p = "root" -> << Item("fA", <<"A">>, TRUE, FALSE),
                                  Item("fB", <<"B">>, TRUE, FALSE) >>
              [] p = "fA" -> AudioFiles(100, MaxFiles)
              [] OTHER -> AudioFiles(200, MaxFiles - 10)],
     media |-> BrowseMedia]

\* Folder A shrunk to a few files, folder B gone
DriveQ ==
    [children |->
        [p \in RootIds \cup FolderIds |->
            CASE p = "root" -> << Item("fA", <<"A">>, TRUE, FALSE) >>
              [] p = "fA" -> AudioFiles(100, MaxFiles - 11)
              [] OTHER -> << >>],
     media |-> BrowseMedia]

BrowseDrives == {"P", "Q"}

\* The content of the Drive account named d
Content(d) ==
    CASE d = "A" -> DriveA
      [] d = "B" -> DriveB
      [] d = "P" -> DriveP
      [] OTHER -> DriveQ

----------------------------------------------------------------------------
(* st.cache_data *)

ttl_list_subfolders == 60
ttl_list_wav_files == 60
ttl_download_file_bytes == 3600

\* A cache with no entries. A cache is a function from the keys it holds to
\* entries [value, fetchedAt].
EmptyCache == << >>

Put(cache, key, entry) ==
    [x \in (DOMAIN cache) \cup {key} |-> IF x = key THEN entry ELSE cache[x]]

\* Valid, were an entry still served at the age of exactly the ttl
Valid_AtTtl(cache, key, ttl, now) ==
    /\ key \in DOMAIN cache
    /\ now - cache[key].fetchedAt <= ttl

\* An entry is served while it is younger than the ttl.
Valid(cache, key, ttl, now) ==
    /\ key \in DOMAIN cache
    /\ now - cache[key].fetchedAt < ttl

\* What a function body did: returned a value or raised, after `requests`
\* requests to Drive.
Returned(value, requests) == [ok |-> TRUE, value |-> value, requests |-> requests]
Raised(requests) == [ok |-> FALSE, value |-> << >>, requests |-> requests]

\* cache_data, were whatever the body had when it raised stored as well
cache_data_StoresFailure(cache, ttl, key, now, body) ==
    IF Valid(cache, key, ttl, now)
    THEN [cache |-> cache, outcome |-> "hit",
          value |-> cache[key].value, requests |-> 0]
    ELSE [cache |-> Put(cache, key, [value |-> body.value, fetchedAt |-> now]),
          outcome |-> IF body.ok THEN "fetched" ELSE "error",
          value |-> body.value, requests |-> body.requests]

\* A call of a function decorated with @st.cache_data(ttl = ttl): a valid
\* entry is returned without running the body; otherwise the body runs, and
\* its value is stored only if it returns. An exception passes through and
\* stores nothing.
cache_data(cache, ttl, key, now, body) ==
    IF Valid(cache, key, ttl, now)
    THEN [cache |-> cache, outcome |-> "hit",
          value |-> cache[key].value, requests |-> 0]
    ELSE IF body.ok
    THEN [cache |-> Put(cache, key, [value |-> body.value, fetchedAt |-> now]),
          outcome |-> "fetched", value |-> body.value,
          requests |-> body.requests]
    ELSE [cache |-> cache, outcome |-> "error",
          value |-> << >>, requests |-> body.requests]

----------------------------------------------------------------------------
(* The three Drive operations *)

\* get_drive_service() raises KeyError when the credential is not in
\* st.secrets.
get_drive_service(sec) == sec.cred

\* The body of list_subfolders. fail: files().list(...).execute() raises.
list_subfolders(sec, d, root_folder_id, fail) ==
    IF ~get_drive_service(sec) THEN Raised(0)
    ELSE IF fail THEN Raised(1)
    ELSE Returned(DriveList(d, root_folder_id, TRUE), 1)

\* The body of list_wav_files: the whole listing, filtered by extension.
list_wav_files(sec, d, folder_id, fail) ==
    IF ~get_drive_service(sec) THEN Raised(0)
    ELSE IF fail THEN Raised(1)
    ELSE LET files == DriveList(d, folder_id, FALSE)
             wavs  == SelectSeq(files,
                         LAMBDA f : f.hasName /\ f.name # << >>
                                    /\ AUDIO_EXT_RE(f.name))
         IN  Returned(wavs, 1)

\* next_chunk_loop, were the loop left before the last chunk is written
RECURSIVE next_chunk_loop_LeavesEarly(_, _, _, _)
next_chunk_loop_LeavesEarly(chunks, i, fh, failAt) ==
    LET n == i + 1 IN
    IF n = failAt THEN Raised(n)
    ELSE IF n = Len(chunks) THEN Returned(fh, n)
    ELSE next_chunk_loop_LeavesEarly(chunks, n, fh \o chunks[n], failAt)

\* while not done: _, done = downloader.next_chunk()
\* chunks: what the reader yields; i: requests made so far; fh: the buffer;
\* failAt: the request that raises (0: none does). The n-th next_chunk
\* appends chunk n to fh and reports done with the last chunk.
RECURSIVE next_chunk_loop(_, _, _, _)
next_chunk_loop(chunks, i, fh, failAt) ==
    LET n == i + 1 IN
    IF n = failAt THEN Raised(n)
    ELSE LET fh2  == fh \o chunks[n]
             done == (n = Len(chunks))
         IN  IF done THEN Returned(fh2, n)
             ELSE next_chunk_loop(chunks, n, fh2, failAt)

\* The body of download_file_bytes.
download_file_bytes(sec, d, file_id, failAt) ==
    IF ~get_drive_service(sec) THEN Raised(0)
    ELSE next_chunk_loop(d.media[file_id], 0, << >>, failAt)

\* RefreshCaches, without st.cache_data.clear(): download_file_bytes' cache
\* is left as it is
RefreshCaches_ListingsOnly(fc, wc, bc) ==
    [folder |-> EmptyCache, file |-> EmptyCache, byte |-> bc]

\* if refresh: list_subfolders.clear(); list_wav_files.clear();
\* st.cache_data.clear() -- the last clears every cache_data function's
\* cache, download_file_bytes' too.
RefreshCaches(fc, wc, bc) ==
    LET c1 == [folder |-> EmptyCache, file |-> wc, byte |-> bc]
        c2 == [c1 EXCEPT !.file = EmptyCache]
        c3 == [folder |-> EmptyCache, file |-> EmptyCache, byte |-> EmptyCache]
    IN  c3

----------------------------------------------------------------------------
(* The script's computations on the listing it shows *)

\* The characters str.strip() removes
Whitespace == {" ", "\t", "\n", "\r", "\f"}

\* not query.strip(): the text is empty or all whitespace
IsBlank(query) == \A i \in 1..Len(query) : query[i] \in Whitespace

\* needle in hay
Contains(hay, needle) ==
    \E i \in 0..(Len(hay) - Len(needle)) :
        SubSeq(hay, i + 1, i + Len(needle)) = needle

\* search_filter, were the file name compared as it is written
search_filter_NameAsWritten(files, query) ==
    IF ~IsBlank(query)
    THEN SelectSeq(files, LAMBDA f : Contains(f.name, LowerStr(query)))
    ELSE files

\* if query.strip():
\*     files = [f for f in files if query.lower() in f["name"].lower()]
search_filter(files, query) ==
    IF ~IsBlank(query)
    THEN SelectSeq(files,
            LAMBDA f : Contains(LowerStr(f.name), LowerStr(query)))
    ELSE files

Max(a, b) == IF a >= b THEN a ELSE b
Min(a, b) == IF a <= b THEN a ELSE b

\* The limits of the "Files per page" input, and its initial value
page_size_min == 10
page_size_max == 200
page_size_default == 50

\* page_count, were the division not rounded up
page_count_RoundedDown(total, page_size) ==
    Max(1, total \div page_size)

\* page_count = max(1, (total + page_size - 1) // page_size)
page_count(total, page_size) ==
    Max(1, (total + page_size - 1) \div page_size)

\* s[a:b] for 0 <= a
Slice(s, a, b) == SubSeq(s, a + 1, Min(b, Len(s)))

\* start = (page - 1) * page_size; end = min(start + page_size, total);
\* files_page = files[start:end]
files_page(files, page_size, page) ==
    LET total == Len(files)
        start == (page - 1) * page_size
        end   == Min(start + page_size, total)
    IN  Slice(files, start, end)

----------------------------------------------------------------------------
(* The script, run from top to bottom on every interaction *)

\* root_id = st.secrets.get("GDRIVE_ROOT_FOLDER_ID")
root_id == "root"

\* The widgets that keep a value between runs. A widget is identified by its
\* label and arguments: the selectbox by its options, the "Page" input by its
\* max_value. live: the widgets the session holds a value for.
Stateful == {"folder", "query", "page_size", "page"}

NoWidgets ==
    [live |-> {}, options |-> << >>, index |-> 1, query |-> << >>,
     page_size |-> page_size_default, page_max |-> 1, page |-> 1]

\* The session's widget state after a run that rendered the widgets in
\* `rendered` with the values `vals`. A run that reaches the end of the
\* script drops the state of widgets it did not render; whether a run cut
\* short (st.stop, st.rerun, an exception) does depends on the Streamlit
\* version: keep.
Settle(w, rendered, vals, keep) ==
    LET live == IF keep THEN w.live \cup rendered ELSE rendered
        pick(name, new, old, default) ==
            IF name \in rendered THEN new
            ELSE IF name \in live THEN old ELSE default
    IN  [live      |-> live,
         options   |-> pick("folder", vals.options, w.options, << >>),
         index     |-> pick("folder", vals.index, w.index, 1),
         query     |-> pick("query", vals.query, w.query, << >>),
         page_size |-> pick("page_size", vals.page_size, w.page_size,
                            page_size_default),
         page_max  |-> pick("page", vals.page_max, w.page_max, 1),
         page      |-> pick("page", vals.page, w.page, 1)]

\* What a run put on the page. offered: the widgets the user can act on;
\* called: the run sent a request to Drive.
Page(status, offered, folder, total, pages, page, shown, called) ==
    [status |-> status, offered |-> offered,
     folder |-> folder, total |-> total, page_count |-> pages,
     page |-> page, files_page |-> shown, called |-> called]

NoView == Page("not_started", {}, "", 0, 1, 1, << >>, FALSE)

\* for idx, f in enumerate(files_page, ...): download_file_bytes(f["id"]),
\* twice for each file. failing: the first download that reaches Drive
\* raises on its first chunk. (r1 and r2, the two calls' results, are bound
\* as members of singleton sets so that each is computed once.)
RECURSIVE RenderLoop(_, _, _, _, _, _, _, _)
RenderLoop(sec, d, now, bc, shown, i, failing, requests) ==
    IF i > Len(shown)
    THEN [ok |-> TRUE, cache |-> bc, requests |-> requests]
    ELSE CHOOSE out \in
           { IF r1.outcome = "error"
             THEN [ok |-> FALSE, cache |-> r1.cache,
                   requests |-> requests + r1.requests]
             ELSE CHOOSE next \in
                    { RenderLoop(sec, d, now, r2.cache, shown, i + 1,
                                 failing,
                                 requests + r1.requests + r2.requests) :
                      r2 \in { cache_data(r1.cache, ttl_download_file_bytes,
                                  shown[i].id, now,
                                  download_file_bytes(sec, d, shown[i].id,
                                                      0)) } } : TRUE :
             r1 \in { cache_data(bc, ttl_download_file_bytes,
                         shown[i].id, now,
                         download_file_bytes(sec, d, shown[i].id,
                                             IF failing THEN 1 ELSE 0)) } }
           : TRUE

\* The run ends: the caches, the widget state and the page it leaves.
Finish(fc, wc, bc, w, page) ==
    /\ folderCache' = fc
    /\ fileCache' = wc
    /\ byteCache' = bc
    /\ widgets' = w
    /\ view' = page
    /\ UNCHANGED <<secrets, drive, clock, ret, cleared, calc>>

\* The run is cut short (st.stop or an exception) having rendered the
\* widgets in `rendered`.
CutShort(fc, wc, bc, w, rendered, vals, page) ==
    \E keep \in BOOLEAN :
        Finish(fc, wc, bc, Settle(w, rendered, vals, keep), page)

\* Lines 125-148, once a folder is selected: the listing, the search filter,
\* the page and the players. rf: what list_subfolders gave; top: the values
\* of the three widgets rendered so far. Each Drive operation that is
\* reached may raise.
RunFolder(rf, wc, bc, w, top, folder_id) ==
    \E rw \in { cache_data(wc, ttl_list_wav_files, folder_id, clock,
                   list_wav_files(secrets, Content(drive), folder_id, fail)) :
                fail \in BOOLEAN } :
    IF rw.outcome = "error"
    THEN CutShort(rf.cache, rw.cache, bc, w,
                  {"folder", "query", "page_size"}, top,
                  Page("exception",
                       {"refresh", "folder", "query", "page_size"},
                       folder_id, 0, 1, 1, << >>,
                       rf.requests + rw.requests > 0))
    ELSE
    \E files \in { search_filter(rw.value, top.query) } :
    \E pages \in { page_count(Len(files), top.page_size) } :
    \E page \in { IF "page" \in w.live /\ w.page_max = pages
                  THEN w.page ELSE 1 } :
    \E shown \in { files_page(files, top.page_size, page) } :
    \E rr \in { RenderLoop(secrets, Content(drive), clock, bc, shown, 1, failing, 0) :
                failing \in BOOLEAN } :
        Finish(rf.cache, rw.cache, rr.cache,
               Settle(w, Stateful,
                      [top EXCEPT !.page_max = pages, !.page = page], TRUE),
               Page(IF rr.ok THEN "ok" ELSE "exception",
                    {"refresh"} \cup Stateful,
                    folder_id, Len(files), pages, page,
                    [i \in 1..Len(shown) |-> shown[i].id],
                    rf.requests + rw.requests + rr.requests > 0))

\* One run of the script from line 93, the refresh button not pressed.
\* w: the session's widget state; fc, wc, bc: the caches.
Run(fc, wc, bc, w) ==
    IF ~secrets.root
    THEN \* st.error("Missing GDRIVE_ROOT_FOLDER_ID ..."); st.stop()
         CutShort(fc, wc, bc, w, {}, NoWidgets,
                  Page("config_error", {}, "", 0, 1, 1, << >>, FALSE))
    ELSE
    \E rf \in { cache_data(fc, ttl_list_subfolders, root_id, clock,
                   list_subfolders(secrets, Content(drive), root_id, fail)) :
                fail \in BOOLEAN } :
    IF rf.outcome = "error"
    THEN CutShort(rf.cache, wc, bc, w, {}, NoWidgets,
                  Page("exception", {"refresh"}, "", 0, 1, 1, << >>,
                       rf.requests > 0))
    ELSE IF rf.value = << >>
    THEN \* st.warning("No subfolders found ..."); st.stop()
         CutShort(rf.cache, wc, bc, w, {}, NoWidgets,
                  Page("no_folders", {"refresh"}, "", 0, 1, 1, << >>,
                       rf.requests > 0))
    ELSE
    \E folders \in { rf.value } :
    \E folder_names \in { [i \in 1..Len(folders) |-> folders[i].name] } :
    \E index \in { IF "folder" \in w.live /\ w.options = folder_names
                   THEN w.index ELSE 1 } :
    \E selected_name \in { folder_names[index] } :
    \* next(f for f in folders if f["name"] == selected_name)
    \E selected_folder \in
          { folders[CHOOSE i \in 1..Len(folders) :
                       /\ folders[i].name = selected_name
                       /\ \A j \in 1..(i - 1) :
                             folders[j].name # selected_name] } :
    \E query \in { IF "query" \in w.live THEN w.query ELSE << >> } :
    \E page_size \in { IF "page_size" \in w.live THEN w.page_size
                       ELSE page_size_default } :
        RunFolder(rf, wc, bc, w,
                  [NoWidgets EXCEPT !.options = folder_names,
                                    !.index = index, !.query = query,
                                    !.page_size = page_size],
                  selected_folder.id)

----------------------------------------------------------------------------
(* Spec: the cached operations called in any order, as time passes and the
   Drive account changes *)

MaxChunks == 3

\* Nothing has been evaluated.
NoCalc == [op |-> "none"]

\* The instants the clock is observed at, around the two ttls.
Times == {0, 30, 60, 3600}

\* cleared: a refresh dropped this key's entry, and this call is the first
\* to ask for the key again.
Idle == [op |-> "none", key |-> "", outcome |-> "none",
         value |-> << >>, requests |-> 0, cleared |-> FALSE]

Outcome(op, key, r) ==
    [op |-> op, key |-> key, outcome |-> r.outcome,
     value |-> r.value, requests |-> r.requests,
     cleared |-> <<op, key>> \in cleared]

\* cleared, once a refresh has dropped the entries of fc, wc and bc
Dropped(fc, wc, bc) ==
    cleared \cup {<<"list_subfolders", k>> : k \in DOMAIN fc}
            \cup {<<"list_wav_files", k>> : k \in DOMAIN wc}
            \cup {<<"download_file_bytes", k>> : k \in DOMAIN bc}

Init ==
    /\ secrets = [root |-> TRUE, cred |-> TRUE]
    /\ drive \in Drives
    /\ clock = 0
    /\ folderCache = EmptyCache
    /\ fileCache = EmptyCache
    /\ byteCache = EmptyCache
    /\ ret = Idle
    /\ cleared = {}
    /\ widgets = NoWidgets
    /\ view = NoView
    /\ calc = NoCalc

CallListSubfolders ==
    \E k \in RootIds, fail \in BOOLEAN :
        LET r == cache_data(folderCache, ttl_list_subfolders, k, clock,
                            list_subfolders(secrets, Content(drive), k, fail))
        IN  /\ folderCache' = r.cache
            /\ ret' = Outcome("list_subfolders", k, r)
            /\ cleared' = cleared \ {<<"list_subfolders", k>>}
            /\ UNCHANGED <<secrets, drive, clock, fileCache, byteCache, sessionVars, calc>>

CallListWavFiles ==
    \E k \in FolderIds, fail \in BOOLEAN :
        LET r == cache_data(fileCache, ttl_list_wav_files, k, clock,
                            list_wav_files(secrets, Content(drive), k, fail))
        IN  /\ fileCache' = r.cache
            /\ ret' = Outcome("list_wav_files", k, r)
            /\ cleared' = cleared \ {<<"list_wav_files", k>>}
            /\ UNCHANGED <<secrets, drive, clock, folderCache, byteCache, sessionVars, calc>>

CallDownloadFileBytes ==
    \E k \in FileIds, failAt \in 0..MaxChunks :
        LET r == cache_data(byteCache, ttl_download_file_bytes, k, clock,
                            download_file_bytes(secrets, Content(drive), k, failAt))
        IN  /\ byteCache' = r.cache
            /\ ret' = Outcome("download_file_bytes", k, r)
            /\ cleared' = cleared \ {<<"download_file_bytes", k>>}
            /\ UNCHANGED <<secrets, drive, clock, folderCache, fileCache, sessionVars, calc>>

\* The refresh button's handler, without the rerun that follows it.
Refresh ==
    LET c == RefreshCaches(folderCache, fileCache, byteCache)
    IN  /\ folderCache' = c.folder
        /\ fileCache' = c.file
        /\ byteCache' = c.byte
        /\ ret' = [Idle EXCEPT !.op = "refresh"]
        /\ cleared' = Dropped(folderCache, fileCache, byteCache)
        /\ UNCHANGED <<secrets, drive, clock, sessionVars, calc>>

Tick ==
    /\ \E t \in Times : t > clock /\ clock' = t
    /\ ret' = Idle
    /\ UNCHANGED <<secrets, drive, folderCache, fileCache, byteCache, cleared,
                   sessionVars, calc>>

DriveChange ==
    /\ \E d \in Drives : d # drive /\ drive' = d
    /\ ret' = Idle
    /\ UNCHANGED <<secrets, clock, folderCache, fileCache, byteCache, cleared,
                   sessionVars, calc>>

Next ==
    \/ CallListSubfolders
    \/ CallListWavFiles
    \/ CallDownloadFileBytes
    \/ Refresh
    \/ Tick
    \/ DriveChange

Spec == Init /\ [][Next]_vars

----------------------------------------------------------------------------
(* SpecPure: the script's computations, each applied to inputs drawn from
   bounded sets *)

MaxTotal == 125
MaxQueryLen == 3

\* The strings over alphabet of length at most n
RECURSIVE StringsUpTo(_, _)
StringsUpTo(alphabet, n) ==
    IF n = 0 THEN {<< >>}
    ELSE LET shorter == StringsUpTo(alphabet, n - 1)
         IN  shorter \cup {Append(t, c) : t \in shorter, c \in alphabet}

SearchAlphabet == {"t", "A", " ", "\t"}

Take == <<"t","a","k","e">>

Queries == StringsUpTo(SearchAlphabet, MaxQueryLen) \cup {Take}

\* drum_loop.wav, Vocal_Take1.wav, noise.WAVE
NamedListing ==
    << File("n1", <<"d","r","u","m","_","l","o","o","p",".","w","a","v">>),
       File("n2", <<"V","o","c","a","l","_","T","a","k","e","1",
                    ".","w","a","v">>),
       File("n3", <<"n","o","i","s","e",".","W","A","V","E">>) >>

ShortListing ==
    << File("s1", <<"a","t",".","w","a","v">>),
       File("s2", <<"T"," ","a",".","W","A","V">>),
       File("s3", <<"t","t","A",".","w","a","v","e">>),
       File("s4", <<"a","\t","T",".","w","a","v">>),
       File("s5", <<"a","t",".","w","a","v">>) >>

Listings == {<< >>, NamedListing, ShortListing}

Chunks == {<<"A","B">>, <<"C","D">>, <<"E","F">>, <<"G">>}

\* The chunked readers of at most n chunks, never none
RECURSIVE Readers(_)
Readers(n) ==
    IF n = 1 THEN {<<c>> : c \in Chunks}
    ELSE LET fewer == Readers(n - 1)
         IN  fewer \cup {Append(r, c) : r \in fewer, c \in Chunks}

\* A Drive account holding one file, read in the given chunks
DriveOf(chunks) ==
    [children |-> [p \in RootIds \cup FolderIds |-> << >>],
     media |-> [f \in FileIds |-> chunks]]

PureInputs ==
    {[op |-> "search", stage |-> "input", query |-> q, files |-> l] :
        q \in Queries, l \in Listings}
    \cup
    {[op |-> "page", stage |-> "input", total |-> n, page_size |-> z] :
        n \in 0..MaxTotal, z \in page_size_min..page_size_max}
    \cup
    {[op |-> "download", stage |-> "input", chunks |-> r, failAt |-> j] :
        r \in Readers(MaxChunks), j \in 0..MaxChunks}

InitPure ==
    /\ secrets = [root |-> TRUE, cred |-> TRUE]
    /\ drive = "A"
    /\ clock = 0
    /\ folderCache = EmptyCache
    /\ fileCache = EmptyCache
    /\ byteCache = EmptyCache
    /\ ret = Idle
    /\ cleared = {}
    /\ widgets = NoWidgets
    /\ view = NoView
    /\ calc \in PureInputs

\* Lines 126-127 on a listing and a search text
DoSearch ==
    /\ calc.op = "search" /\ calc.stage = "input"
    /\ calc' = [op |-> "search", stage |-> "done",
                query |-> calc.query, files |-> calc.files,
                filtered |-> search_filter(calc.files, calc.query)]
    /\ UNCHANGED <<secrets, drive, clock, catalogVars, sessionVars>>

\* Lines 129-133 on a listing of total files (numbered 1..total)
DoPageCount ==
    /\ calc.op = "page" /\ calc.stage = "input"
    /\ calc' = [op |-> "page", stage |-> "counted",
                total |-> calc.total, page_size |-> calc.page_size,
                page_count |-> page_count(calc.total, calc.page_size)]
    /\ UNCHANGED <<secrets, drive, clock, catalogVars, sessionVars>>

\* Lines 134-137: the "Page" input offers 1..page_count
DoPage ==
    /\ calc.op = "page" /\ calc.stage = "counted"
    /\ \E page \in 1..calc.page_count :
          calc' = [op |-> "page", stage |-> "sliced",
                   total |-> calc.total, page_size |-> calc.page_size,
                   page_count |-> calc.page_count, page |-> page,
                   files_page |-> files_page([i \in 1..calc.total |-> i],
                                             calc.page_size, page)]
    /\ UNCHANGED <<secrets, drive, clock, catalogVars, sessionVars>>

\* The body of download_file_bytes on a chunked reader
DoDownload ==
    /\ calc.op = "download" /\ calc.stage = "input"
    /\ LET k == CHOOSE f \in FileIds : TRUE
           r == download_file_bytes(secrets, DriveOf(calc.chunks), k,
                                    calc.failAt)
       IN  calc' = [op |-> "download", stage |-> "done",
                    chunks |-> calc.chunks, failAt |-> calc.failAt,
                    ok |-> r.ok, value |-> r.value, requests |-> r.requests]
    /\ UNCHANGED <<secrets, drive, clock, catalogVars, sessionVars>>

NextPure == DoSearch \/ DoPageCount \/ DoPage \/ DoDownload

SpecPure == InitPure /\ [][NextPure]_vars

----------------------------------------------------------------------------
(* SpecBrowse: one session using the page, as time passes and the Drive
   account changes *)

BrowseQueries == {<< >>, <<"t">>}

BrowsePageSizes == {page_size_min, page_size_default}

BrowseTimes == {0, 60}

InitBrowse ==
    /\ secrets \in [root : BOOLEAN, cred : BOOLEAN]
    /\ drive \in BrowseDrives
    /\ clock = 0
    /\ folderCache = EmptyCache
    /\ fileCache = EmptyCache
    /\ byteCache = EmptyCache
    /\ ret = Idle
    /\ cleared = {}
    /\ widgets = NoWidgets
    /\ view = NoView
    /\ calc = NoCalc

\* The session opens the page.
Load ==
    /\ view.status = "not_started"
    /\ Run(folderCache, fileCache, byteCache, NoWidgets)

\* The refresh button: the run clears the caches and calls st.rerun(),
\* having rendered no stateful widget; the script then runs again.
ClickRefresh ==
    /\ "refresh" \in view.offered
    /\ \E keep \in BOOLEAN :
          LET c == RefreshCaches(folderCache, fileCache, byteCache)
          IN  Run(c.folder, c.file, c.byte,
                  Settle(widgets, {}, NoWidgets, keep))

SelectFolder ==
    /\ "folder" \in view.offered
    /\ \E i \in 1..Len(widgets.options) :
          /\ i # widgets.index
          /\ Run(folderCache, fileCache, byteCache,
                 [widgets EXCEPT !.index = i])

SetQuery ==
    /\ "query" \in view.offered
    /\ \E q \in BrowseQueries :
          /\ q # widgets.query
          /\ Run(folderCache, fileCache, byteCache,
                 [widgets EXCEPT !.query = q])

SetPageSize ==
    /\ "page_size" \in view.offered
    /\ \E z \in BrowsePageSizes :
          /\ z # widgets.page_size
          /\ Run(folderCache, fileCache, byteCache,
                 [widgets EXCEPT !.page_size = z])

SetPage ==
    /\ "page" \in view.offered
    /\ \E n \in 1..widgets.page_max :
          /\ n # widgets.page
          /\ Run(folderCache, fileCache, byteCache,
                 [widgets EXCEPT !.page = n])

\* The list ttl passes.
BrowseTick ==
    /\ \E t \in BrowseTimes : t > clock /\ clock' = t
    /\ UNCHANGED <<secrets, drive, catalogVars, sessionVars, calc>>

BrowseDriveChange ==
    /\ \E d \in BrowseDrives : d # drive /\ drive' = d
    /\ UNCHANGED <<secrets, clock, catalogVars, sessionVars, calc>>

NextBrowse ==
    \/ Load
    \/ ClickRefresh
    \/ SelectFolder
    \/ SetQuery
    \/ SetPageSize
    \/ SetPage
    \/ BrowseTick
    \/ BrowseDriveChange

SpecBrowse == InitBrowse /\ [][NextBrowse]_vars

----------------------------------------------------------------------------
(* Properties of the script's computations, checked under SpecPure *)

\* C4: for every total, every page size in [10, 200] and every page in
\* [1, page_count], page_count is max(1, ceil(total / page_size)) -- the
\* least n >= 1 with n * page_size >= total -- and the page shown is the
\* files at 0-based indices [(page - 1) * page_size,
\* min(total, page * page_size)), in order. Total 0 gives one empty page.
C4_Pagination ==
    (calc.op = "page" /\ calc.stage = "sliced") =>
        LET n  == calc.page_count
            z  == calc.page_size
            lo == (calc.page - 1) * z
            hi == IF calc.page * z < calc.total
                  THEN calc.page * z ELSE calc.total
        IN  /\ z \in 10..200
            /\ n >= 1
            /\ n * z >= calc.total
            /\ n > 1 => (n - 1) * z < calc.total
            /\ calc.page \in 1..n
            /\ lo <= hi
            /\ calc.files_page = [i \in 1..(hi - lo) |-> lo + i]
            /\ calc.total = 0 => (n = 1 /\ calc.files_page = << >>)

\* Total 125 at 50 per page: three pages, the third holding files [100, 125).
C4_Witness ==
    /\ calc.op = "page" /\ calc.stage = "sliced"
    /\ calc.total = 125 /\ calc.page_size = 50
    /\ calc.page_count = 3 /\ calc.page = 3
    /\ Len(calc.files_page) = 25
    /\ calc.files_page[1] = 101 /\ calc.files_page[25] = 125

\* Two characters are the same letter in either case, or the same character.
SameIgnoringCase(a, b) ==
    \/ a = b
    \/ \E i \in 1..26 : {a, b} = {UpperChars[i], LowerChars[i]}

\* text occurs in name as a contiguous run of characters, letter case ignored
OccursIn(text, name) ==
    \E off \in 0..(Len(name) - Len(text)) :
        \A i \in 1..Len(text) : SameIgnoringCase(text[i], name[off + i])

\* The files whose full name contains text, in listing order
Matching(files, text) ==
    SelectSeq(files, LAMBDA f : OccursIn(text, f.name))

\* C5 as stated: for every search text, whitespace included, the filtered
\* list is exactly the files whose name contains the text, letter case
\* ignored, in listing order.
C5_SubstringForEveryText ==
    (calc.op = "search" /\ calc.stage = "done") =>
        calc.filtered = Matching(calc.files, calc.query)

\* C5 as amended: for a search text with at least one character that is not
\* whitespace, the filtered list is exactly the files whose name contains
\* the whole text (its leading and trailing whitespace included), letter
\* case ignored, in listing order; for an empty or all-whitespace text it is
\* the whole listing.
C5_SubstringUnlessBlank ==
    (calc.op = "search" /\ calc.stage = "done") =>
        IF \E i \in 1..Len(calc.query) :
              calc.query[i] \notin {" ", "\t", "\n", "\r", "\f"}
        THEN calc.filtered = Matching(calc.files, calc.query)
        ELSE calc.filtered = calc.files

\* drum_loop.wav, Vocal_Take1.wav, noise.WAVE searched for "take" give
\* Vocal_Take1.wav alone.
C5_Witness ==
    /\ calc.op = "search" /\ calc.stage = "done"
    /\ calc.files = NamedListing
    /\ calc.query = Take
    /\ calc.filtered = << NamedListing[2] >>

\* The length of chunks 1..n together
RECURSIVE LenUpTo(_, _)
LenUpTo(chunks, n) ==
    IF n = 0 THEN 0 ELSE LenUpTo(chunks, n - 1) + Len(chunks[n])

\* C7: on a reader of n >= 1 chunks none of which fails, the download makes
\* exactly n next-chunk requests and returns the chunks joined in order,
\* each present once: chunk i fills the positions after chunks 1..i-1.
C7_Download ==
    (calc.op = "download" /\ calc.stage = "done"
       /\ calc.failAt \notin 1..Len(calc.chunks)) =>
        /\ calc.ok
        /\ calc.requests = Len(calc.chunks)
        /\ Len(calc.value) = LenUpTo(calc.chunks, Len(calc.chunks))
        /\ \A i \in 1..Len(calc.chunks) :
              SubSeq(calc.value,
                     LenUpTo(calc.chunks, i - 1) + 1,
                     LenUpTo(calc.chunks, i)) = calc.chunks[i]

\* Chunks AB, CD, EF give ABCDEF after three requests.
C7_Witness ==
    /\ calc.op = "download" /\ calc.stage = "done"
    /\ calc.chunks = << <<"A","B">>, <<"C","D">>, <<"E","F">> >>
    /\ calc.ok
    /\ calc.requests = 3
    /\ calc.value = <<"A","B","C","D","E","F">>

----------------------------------------------------------------------------
(* Properties of the browse flow, checked under SpecBrowse *)

\* C6: after a folder selection, a change of the search text or a change of
\* the page size, the page the finished run shows is page 1; and the page
\* shown always lies in 1..page_count.
C6_Step ==
    /\ ((SelectFolder \/ SetQuery \/ SetPageSize) /\ view'.status = "ok")
          => (view'.page = 1 /\ widgets'.page = 1)
    /\ view'.status = "ok" => view'.page \in 1..view'.page_count

C6_ChangeResetsPage == [][C6_Step]_vars

\* C9: with the root folder id or the credential missing, every run halts
\* with the configuration error, offering no widget (no refresh button, no
\* folder selection, search or paging) and sending Drive no request.
C9_HaltsBeforeUI ==
    (view.status # "not_started" /\ (~secrets.root \/ ~secrets.cred)) =>
        /\ view.status = "config_error"
        /\ view.offered = {}
        /\ ~view.called

----------------------------------------------------------------------------
(* Properties of the cached operations, checked under Spec *)

CallOps == {"list_subfolders", "list_wav_files", "download_file_bytes"}

\* The cache table behind an operation, among the three given
CacheOf(op, fc, wc, bc) ==
    CASE op = "list_subfolders" -> fc
      [] op = "list_wav_files" -> wc
      [] OTHER -> bc

\* The ttl the specification gives an operation: 60 s for the two listings,
\* 3600 s for bytes.
StatedTtl(op) == IF op = "download_file_bytes" THEN 3600 ELSE 60

\* The table holds an entry for key that is younger than the stated ttl.
HoldsFresh(cache, key, op, now) ==
    /\ key \in DOMAIN cache
    /\ now - cache[key].fetchedAt < StatedTtl(op)

\* C1: a call on key k reaches Drive if and only if the table holds no entry
\* for k younger than the ttl (60 s for the listings, 3600 s for bytes).
\* With such an entry the call returns the stored value and changes no
\* table, so a second call inside the window returns the same result with no
\* further Drive request, and no value older than the ttl is ever returned;
\* without one, the value it returns is the one it stores, stamped now.
C1_Step ==
    ret'.op \in CallOps =>
        LET op    == ret'.op
            k     == ret'.key
            c     == CacheOf(op, folderCache, fileCache, byteCache)
            c2    == CacheOf(op, folderCache', fileCache', byteCache')
            fresh == HoldsFresh(c, k, op, clock)
        IN  /\ (ret'.requests > 0) <=> ~fresh
            /\ fresh => /\ ret'.outcome = "hit"
                        /\ ret'.value = c[k].value
                        /\ UNCHANGED <<folderCache, fileCache, byteCache>>
            /\ (~fresh /\ ret'.outcome # "error") =>
                        /\ ret'.outcome = "fetched"
                        /\ k \in DOMAIN c2
                        /\ c2[k] = [value |-> ret'.value, fetchedAt |-> clock]

C1_ReadThrough == [][C1_Step]_vars

\* A second list_wav_files call inside the ttl window, after time has
\* passed and the folder has changed on Drive: the stored listing is
\* returned, not the current one.
C1_Witness ==
    /\ ret.op = "list_wav_files"
    /\ ret.outcome = "hit"
    /\ ret.requests = 0
    /\ clock > fileCache[ret.key].fetchedAt
    /\ ret.value # list_wav_files(secrets, Content(drive), ret.key, FALSE).value

\* C2: a refresh leaves all three tables empty, and the first call of an
\* operation on a key whose entry the refresh dropped reaches Drive again
\* rather than being served from a table, also inside the dropped entry's
\* ttl window.
C2_Step ==
    /\ ret'.op = "refresh" =>
          /\ folderCache' = EmptyCache
          /\ fileCache' = EmptyCache
          /\ byteCache' = EmptyCache
    /\ (ret'.op \in CallOps /\ <<ret'.op, ret'.key>> \in cleared) =>
          /\ ret'.cleared
          /\ ret'.outcome # "hit"
          /\ ret'.requests >= 1

C2_RefreshForcesFetch == [][C2_Step]_vars

\* A download refetched after a refresh while the clock is still below every
\* ttl: whatever entry the refresh dropped was inside its window.
C2_Witness ==
    /\ ret.op = "download_file_bytes"
    /\ ret.cleared
    /\ ret.outcome = "fetched"
    /\ clock < 60

\* The name ends in .wav or .wave, letter case ignored.
EndsInAudioExt(name) ==
    \E e \in AudioExts :
        /\ Len(name) > Len(e)
        /\ name[Len(name) - Len(e)] = "."
        /\ \A i \in 1..Len(e) : Lower(name[Len(name) - Len(e) + i]) = e[i]

\* C3: list_wav_files returns exactly the items of the folder's listing
\* whose name ends in .wav or .wave (letter case ignored), in listing order;
\* no other item is returned by a call or held in the table.
C3_OnlyAudioSuffix ==
    /\ \A k \in DOMAIN fileCache :
          \A i \in 1..Len(fileCache[k].value) :
             /\ fileCache[k].value[i].hasName
             /\ EndsInAudioExt(fileCache[k].value[i].name)
    /\ (ret.op = "list_wav_files" /\ ret.outcome \in {"hit", "fetched"}) =>
          \A i \in 1..Len(ret.value) :
             /\ ret.value[i].hasName
             /\ EndsInAudioExt(ret.value[i].name)
    /\ (ret.op = "list_wav_files" /\ ret.outcome = "fetched") =>
          ret.value = SelectSeq(DriveList(Content(drive), ret.key, FALSE),
                         LAMBDA f : f.hasName /\ EndsInAudioExt(f.name))

\* C8: a call that fails made each Drive request at most once (one request
\* for a listing; for a download the requests up to the failing chunk),
\* leaves the three tables as they were, and leaves no servable entry for
\* its key, so the next call on the key goes to Drive again.
C8_Step ==
    ret'.outcome = "error" =>
        LET op == ret'.op
            k  == ret'.key
            c2 == CacheOf(op, folderCache', fileCache', byteCache')
        IN  /\ UNCHANGED <<folderCache, fileCache, byteCache>>
            /\ ~HoldsFresh(c2, k, op, clock')
            /\ ret'.value = << >>
            /\ IF op = "download_file_bytes"
               THEN ret'.requests \in 1..Len(Content(drive).media[k])
               ELSE ret'.requests = 1

C8_FailureStoresNothing == [][C8_Step]_vars

\* A download that failed on a later chunk, after earlier ones arrived.
C8_Witness ==
    /\ ret.op = "download_file_bytes"
    /\ ret.outcome = "error"
    /\ ret.requests > 1
    /\ ret.key \notin DOMAIN byteCache

====
